---- MODULE Spec2Model ----
(***************************************************************************)
(* A model of the blog backend of src/1.py: the Post table, the media      *)
(* directory, and the request handlers home, new_post and post_detail, run *)
(* by workers that share the table and the directory.                      *)
(*                                                                         *)
(* A worker is idle, or inside new_post between the upload step (lines     *)
(* 85-108: read the form, save the file) and the store step (lines         *)
(* 110-125: validate, insert, commit), or done with a response in hand     *)
(* that it returns before it takes the next request.  The steps of one     *)
(* request that touch only its own locals are taken together with the      *)
(* next step that touches the table or the directory.                      *)
(*                                                                         *)
(* A filename is a sequence of tokens, each an indivisible run of          *)
(* characters: "." the dot, "/" the path separator, " " white space, "_"   *)
(* the underscore, "#" a character outside ASCII, "a" a run of ASCII       *)
(* letters, "png", "MP4", "txt" runs of letters that spell an extension,   *)
(* and "t1", "t2" the eight hexadecimal digits of a drawn token.           *)
(* Python's None is NoValue for a string and the empty sequence for a      *)
(* filename (a filename new_post stores is never empty).                   *)
(***************************************************************************)
EXTENDS Integers, Sequences, FiniteSets, TLC

VARIABLES served, posts, files, clock, pc, req, token, unique_name, media_type, media_filename, resp

vars == <<served, posts, files, clock, pc, req, token, unique_name, media_type, media_filename, resp>>

(* ---------------------------- bounds ---------------------------------- *)

MaxRequests == 2
MaxClock == 1
ListMaxRequests == 4
ListMaxClock == 2

Workers == {"w1", "w2"}

(* ---------------------------- values ---------------------------------- *)

NoValue == "None"

Truthy(v) == v # NoValue /\ v # ""

ALLOWED_EXTENSIONS == {"png", "jpg", "jpeg", "gif", "webp", "mp4", "mov", "avi", "webm"}

VIDEO_EXTENSIONS == {"mp4", "mov", "avi", "webm"}

(* The column default of Post.topic, a word for "life". *)
DEFAULT_TOPIC == "life"

(* What a save that fails part-way leaves in the file. *)
PARTIAL == "partial"

(* ------------------------ string helpers ------------------------------ *)

Lower(t) ==
    CASE t = "PNG" -> "png"
      [] t = "MP4" -> "mp4"
      [] OTHER -> t

LowerSeq(s) == [i \in 1..Len(s) |-> Lower(s[i])]

HasDot(s) == \E i \in 1..Len(s) : s[i] = "."

LastDot(s) == CHOOSE i \in 1..Len(s) : s[i] = "." /\ \A j \in (i + 1)..Len(s) : s[j] # "."

RSplitExt(s) == SubSeq(s, LastDot(s) + 1, Len(s))

ExtIn(ext, S) == Len(ext) = 1 /\ ext[1] \in S

allowed_file(filename) ==
    HasDot(filename) /\ ExtIn(LowerSeq(RSplitExt(filename)), ALLOWED_EXTENSIONS)

get_file_type_case_sensitive(filename) ==
    IF ExtIn(RSplitExt(filename), VIDEO_EXTENSIONS) THEN "video" ELSE "image"

get_file_type(filename) ==
    IF ExtIn(LowerSeq(RSplitExt(filename)), VIDEO_EXTENSIONS) THEN "video" ELSE "image"

(* werkzeug's secure_filename: drop what is not ASCII, turn separators to   *)
(* white space, join the words with "_", strip dots and underscores at     *)
(* both ends.                                                              *)
IsAscii(t) == t # "#"

AsciiOnly(s) == SelectSeq(s, IsAscii)

SepToSpace(s) == [i \in 1..Len(s) |-> IF s[i] = "/" THEN " " ELSE s[i]]

RECURSIVE SplitJoin(_, _)
SplitJoin(s, started) ==
    IF s = <<>> THEN <<>>
    ELSE IF Head(s) # " " THEN <<Head(s)>> \o SplitJoin(Tail(s), TRUE)
    ELSE IF started /\ Len(s) > 1 /\ s[2] # " "
         THEN <<"_">> \o SplitJoin(Tail(s), TRUE)
         ELSE SplitJoin(Tail(s), started)

IsStripped(t) == t = "." \/ t = "_"

RECURSIVE StripLeft(_)
StripLeft(s) ==
    IF s # <<>> /\ IsStripped(Head(s)) THEN StripLeft(Tail(s)) ELSE s

RECURSIVE StripRight(_)
StripRight(s) ==
    IF s # <<>> /\ IsStripped(s[Len(s)]) THEN StripRight(SubSeq(s, 1, Len(s) - 1)) ELSE s

secure_filename(filename) ==
    StripRight(StripLeft(SplitJoin(SepToSpace(AsciiOnly(filename)), FALSE)))

UniqueNameWithoutToken(tok, original_filename) == original_filename

UniqueName(tok, original_filename) == <<tok, "_">> \o original_filename

(* --------------------------- records ---------------------------------- *)

NullReq ==
    [op |-> "none", title |-> NoValue, topic |-> NoValue, content |-> NoValue,
     has_file |-> FALSE, filename |-> <<>>, data |-> NoValue, post_id |-> 0]

NoUpload == [has_file |-> FALSE, filename |-> <<>>, data |-> NoValue]

Upload(filename, data) == [has_file |-> TRUE, filename |-> filename, data |-> data]

CreateReq(title, topic, content, up) ==
    [op |-> "create", title |-> title, topic |-> topic, content |-> content,
     has_file |-> up.has_file, filename |-> up.filename, data |-> up.data, post_id |-> 0]

ReadReq(op, id) == [NullReq EXCEPT !.op = op, !.post_id = id]

Response(kind, error, rows, html) ==
    [kind |-> kind, error |-> error, posts |-> rows, content_html |-> html]

NoResp == Response("none", NoValue, <<>>, NoValue)

Post(id, title, topic, content, date, mtype, mname) ==
    [id |-> id, title |-> title,
     topic |-> IF topic = NoValue THEN DEFAULT_TOPIC ELSE topic,
     content_markdown |-> content, date_posted |-> date,
     media_type |-> mtype, media_filename |-> mname]

(* A run serves at most quota requests. *)
Admit(quota) == served < quota /\ served' = served + 1

Init ==
    /\ served = 0
    /\ posts = <<>>
    /\ files = {}
    /\ clock = 0
    /\ pc = [w \in Workers |-> "idle"]
    /\ req = [w \in Workers |-> NullReq]
    /\ token = [w \in Workers |-> NoValue]
    /\ unique_name = [w \in Workers |-> <<>>]
    /\ media_type = [w \in Workers |-> NoValue]
    /\ media_filename = [w \in Workers |-> <<>>]
    /\ resp = [w \in Workers |-> NoResp]

(* ------------------------- media directory ---------------------------- *)

FileNames == {f.name : f \in files}

SaveFile(name, data) ==
    {f \in files : f.name # name} \cup {[name |-> name, data |-> data]}

(* ----------------------- new_post: POST /new -------------------------- *)

AcceptedAnyName(r) == r.has_file /\ r.filename # <<>>

Accepted(r) == r.has_file /\ r.filename # <<>> /\ allowed_file(r.filename)

FailPropagates(w, message) ==
    /\ pc' = [pc EXCEPT ![w] = "done"]
    /\ resp' = [resp EXCEPT ![w] = Response("error", message, <<>>, NoValue)]

Fail(w, message) ==
    /\ pc' = [pc EXCEPT ![w] = "done"]
    /\ resp' = [resp EXCEPT ![w] = Response("form", message, <<>>, NoValue)]

NoMedia(w) ==
    /\ token' = [token EXCEPT ![w] = NoValue]
    /\ unique_name' = [unique_name EXCEPT ![w] = <<>>]
    /\ media_type' = [media_type EXCEPT ![w] = NoValue]
    /\ media_filename' = [media_filename EXCEPT ![w] = <<>>]

CreateNoUpload(w, r) ==
    /\ pc[w] = "idle"
    /\ ~Accepted(r)
    /\ req' = [req EXCEPT ![w] = r]
    /\ pc' = [pc EXCEPT ![w] = "validate"]
    /\ UNCHANGED <<posts, files, clock, token, unique_name, media_type, media_filename, resp>>

CreateUpload(w, r, tok) ==
    /\ pc[w] = "idle"
    /\ Accepted(r)
    /\ HasDot(secure_filename(r.filename))
    /\ LET original_filename == secure_filename(r.filename)
           unique == UniqueName(tok, original_filename)
       IN  /\ files' = SaveFile(unique, r.data)
           /\ unique_name' = [unique_name EXCEPT ![w] = unique]
           /\ media_filename' = [media_filename EXCEPT ![w] = unique]
           /\ media_type' = [media_type EXCEPT ![w] = get_file_type(unique)]
    /\ token' = [token EXCEPT ![w] = tok]
    /\ req' = [req EXCEPT ![w] = r]
    /\ pc' = [pc EXCEPT ![w] = "validate"]
    /\ UNCHANGED <<posts, clock, resp>>

CreateNameError(w, r) ==
    /\ pc[w] = "idle"
    /\ Accepted(r)
    /\ ~HasDot(secure_filename(r.filename))
    /\ req' = [req EXCEPT ![w] = r]
    /\ Fail(w, "failure")
    /\ UNCHANGED <<posts, files, clock, token, unique_name, media_type, media_filename>>

CreateSaveError(w, r, tok, partial) ==
    /\ pc[w] = "idle"
    /\ Accepted(r)
    /\ HasDot(secure_filename(r.filename))
    /\ LET unique == UniqueName(tok, secure_filename(r.filename))
       IN  /\ files' = IF partial THEN SaveFile(unique, PARTIAL) ELSE files
           /\ unique_name' = [unique_name EXCEPT ![w] = unique]
    /\ token' = [token EXCEPT ![w] = tok]
    /\ req' = [req EXCEPT ![w] = r]
    /\ Fail(w, "failure")
    /\ UNCHANGED <<posts, clock, media_type, media_filename>>

ValidTitleOnly(w) == Truthy(req[w].title)

Valid(w) ==
    Truthy(req[w].title) /\ (Truthy(req[w].content) \/ media_filename[w] # <<>>)

NewPostWithoutType(w) ==
    Post(Len(posts) + 1, req[w].title, req[w].topic, req[w].content, clock,
         NoValue, media_filename[w])

NewPost(w) ==
    Post(Len(posts) + 1, req[w].title, req[w].topic, req[w].content, clock,
         media_type[w], media_filename[w])

CreateCommitMerge(w) ==
    /\ pc[w] = "validate"
    /\ Valid(w)
    /\ posts' = IF posts = <<>> THEN <<NewPost(w)>>
                ELSE [posts EXCEPT ![1] = [NewPost(w) EXCEPT !.id = 1]]
    /\ pc' = [pc EXCEPT ![w] = "done"]
    /\ resp' = [resp EXCEPT ![w] = Response("redirect", NoValue, <<>>, NoValue)]
    /\ UNCHANGED <<served, files, clock, req, token, unique_name, media_type, media_filename>>

CreateCommit(w) ==
    /\ pc[w] = "validate"
    /\ Valid(w)
    /\ posts' = Append(posts, NewPost(w))
    /\ pc' = [pc EXCEPT ![w] = "done"]
    /\ resp' = [resp EXCEPT ![w] = Response("redirect", NoValue, <<>>, NoValue)]
    /\ UNCHANGED <<served, files, clock, req, token, unique_name, media_type, media_filename>>

CreateCommitError(w) ==
    /\ pc[w] = "validate"
    /\ Valid(w)
    /\ Fail(w, "failure")
    /\ UNCHANGED <<served, posts, files, clock, req, token, unique_name, media_type, media_filename>>

CreateInvalid(w) ==
    /\ pc[w] = "validate"
    /\ ~Valid(w)
    /\ Fail(w, "validation")
    /\ UNCHANGED <<served, posts, files, clock, req, token, unique_name, media_type, media_filename>>

NewForm(w) ==
    /\ pc[w] = "idle"
    /\ req' = [req EXCEPT ![w] = ReadReq("form", 0)]
    /\ pc' = [pc EXCEPT ![w] = "done"]
    /\ resp' = [resp EXCEPT ![w] = Response("form", NoValue, <<>>, NoValue)]
    /\ UNCHANGED <<posts, files, clock, token, unique_name, media_type, media_filename>>

(* --------------------------- home: GET / ------------------------------ *)

RECURSIVE InsertAsc(_, _)
InsertAsc(p, s) ==
    IF s = <<>> THEN <<p>>
    ELSE IF Head(s).date_posted <= p.date_posted
         THEN <<Head(s)>> \o InsertAsc(p, Tail(s))
         ELSE <<p>> \o s

RECURSIVE InsertDesc(_, _)
InsertDesc(p, s) ==
    IF s = <<>> THEN <<p>>
    ELSE IF Head(s).date_posted >= p.date_posted
         THEN <<Head(s)>> \o InsertDesc(p, Tail(s))
         ELSE <<p>> \o s

RECURSIVE OrderByDateDesc(_)
OrderByDateDesc(rows) ==
    IF rows = <<>> THEN <<>>
    ELSE InsertDesc(rows[Len(rows)], OrderByDateDesc(SubSeq(rows, 1, Len(rows) - 1)))

Scans ==
    {s \in [1..Len(posts) -> 1..Len(posts)] : \A i, j \in 1..Len(posts) : i # j => s[i] # s[j]}

Home(w) ==
    /\ pc[w] = "idle"
    /\ \E scan \in Scans :
         resp' = [resp EXCEPT ![w] =
                    Response("list", NoValue,
                             OrderByDateDesc([i \in 1..Len(posts) |-> posts[scan[i]]]),
                             NoValue)]
    /\ req' = [req EXCEPT ![w] = ReadReq("list", 0)]
    /\ pc' = [pc EXCEPT ![w] = "done"]
    /\ UNCHANGED <<posts, files, clock, token, unique_name, media_type, media_filename>>

(* ------------------- post_detail: GET /post/<id> ---------------------- *)

FoundByPosition(post_id) == {i \in 1..Len(posts) : i = post_id + 1}

Found(post_id) == {i \in 1..Len(posts) : posts[i].id = post_id}

markdown(content) == "<p>" \o content \o "</p>"

Detail(w, post_id) ==
    /\ pc[w] = "idle"
    /\ Found(post_id) # {}
    /\ LET post == posts[CHOOSE i \in Found(post_id) : TRUE]
           content_html == IF Truthy(post.content_markdown)
                           THEN markdown(post.content_markdown) ELSE ""
       IN  resp' = [resp EXCEPT ![w] = Response("detail", NoValue, <<post>>, content_html)]
    /\ req' = [req EXCEPT ![w] = ReadReq("detail", post_id)]
    /\ pc' = [pc EXCEPT ![w] = "done"]
    /\ UNCHANGED <<posts, files, clock, token, unique_name, media_type, media_filename>>

DetailNotFound(w, post_id) ==
    /\ pc[w] = "idle"
    /\ Found(post_id) = {}
    /\ resp' = [resp EXCEPT ![w] = Response("notfound", NoValue, <<>>, NoValue)]
    /\ req' = [req EXCEPT ![w] = ReadReq("detail", post_id)]
    /\ pc' = [pc EXCEPT ![w] = "done"]
    /\ UNCHANGED <<posts, files, clock, token, unique_name, media_type, media_filename>>

(* ---------------------- the handler returns --------------------------- *)

Return(w) ==
    /\ pc[w] = "done"
    /\ pc' = [pc EXCEPT ![w] = "idle"]
    /\ req' = [req EXCEPT ![w] = NullReq]
    /\ resp' = [resp EXCEPT ![w] = NoResp]
    /\ NoMedia(w)
    /\ UNCHANGED <<served, posts, files, clock>>

(* ------------------------------ clock --------------------------------- *)

Tick(limit) ==
    /\ clock < limit
    /\ clock' = clock + 1
    /\ UNCHANGED <<served, posts, files, pc, req, token, unique_name, media_type, media_filename, resp>>

(* --------------------------- specifications --------------------------- *)

Step(W, R, K, quota, limit) ==
    \/ \E w \in W, r \in R : Admit(quota) /\ CreateNoUpload(w, r)
    \/ \E w \in W, r \in R, tok \in K : Admit(quota) /\ CreateUpload(w, r, tok)
    \/ \E w \in W, r \in R : Admit(quota) /\ CreateNameError(w, r)
    \/ \E w \in W, r \in R, tok \in K, partial \in BOOLEAN :
         Admit(quota) /\ CreateSaveError(w, r, tok, partial)
    \/ \E w \in W : CreateCommit(w)
    \/ \E w \in W : CreateCommitError(w)
    \/ \E w \in W : CreateInvalid(w)
    \/ \E w \in W : Admit(quota) /\ NewForm(w)
    \/ \E w \in W : Admit(quota) /\ Home(w)
    \/ \E w \in W, post_id \in 0..quota : Admit(quota) /\ Detail(w, post_id)
    \/ \E w \in W, post_id \in 0..quota : Admit(quota) /\ DetailNotFound(w, post_id)
    \/ \E w \in W : Return(w)
    \/ Tick(limit)

(* One worker, every combination of title, content and attachment. *)

Titles == {NoValue, "", "T"}

Contents == {NoValue, "", "c"}

RawFilenames ==
    { <<>>,
      <<"a">>,
      <<"a", ".", "txt">>,
      <<"a", ".", "png">>,
      <<".", ".", "/", "a", ".", "png">>,
      <<"a", ".", "MP4">>,
      <<"#", ".", "png">> }

Uploads == {NoUpload} \cup {Upload(f, "d1") : f \in RawFilenames}

CreateRequests == {CreateReq(t, "EE", c, u) : t \in Titles, c \in Contents, u \in Uploads}

Next == Step({"w1"}, CreateRequests, {"t1"}, MaxRequests, MaxClock)

Spec == Init /\ [][Next]_vars

(* Two workers on the shared table and directory, two tokens, two contents. *)

WorkerUploads ==
    { NoUpload,
      Upload(<<"a", ".", "png">>, "d1"),
      Upload(<<".", ".", "/", "a", ".", "png">>, "d2"),
      Upload(<<"a", ".", "MP4">>, "d1"),
      Upload(<<"#", ".", "png">>, "d1") }

WorkerRequests == {CreateReq("T", "EE", "", u) : u \in WorkerUploads}

NextWorkers == Step(Workers, WorkerRequests, {"t1", "t2"}, MaxRequests, MaxClock)

SpecWorkers == Init /\ [][NextWorkers]_vars

(* One worker, more posts and more clock readings, for the listing. *)

ListUploads == {NoUpload, Upload(<<"a", ".", "png">>, "d1"), Upload(<<"#", ".", "png">>, "d1")}

ListRequests == {CreateReq(t, NoValue, "c", u) : t \in {"", "T"}, u \in ListUploads}

NextList == Step({"w1"}, ListRequests, {"t1"}, ListMaxRequests, ListMaxClock)

SpecList == Init /\ [][NextList]_vars

(* ------------------------------ claims -------------------------------- *)

NonEmpty(v) == v \notin {NoValue, ""}

Rows == {posts[i] : i \in 1..Len(posts)}

(* C1: in every reachable state every stored Post has a non-empty title    *)
(* and a non-empty content_markdown or a media_filename.                   *)
C1_PostInvariant ==
    \A p \in Rows :
        NonEmpty(p.title) /\ (NonEmpty(p.content_markdown) \/ p.media_filename # <<>>)

C1_Witness ==
    /\ Len(posts) = 2
    /\ \E p \in Rows : ~NonEmpty(p.content_markdown) /\ p.media_filename # <<>>
    /\ \E p \in Rows : NonEmpty(p.content_markdown) /\ p.media_filename = <<>>

(* C5: every stored Post has media_type and media_filename both present   *)
(* or both absent, and the Post of a create request with a title, a        *)
(* non-empty content and no file part has both absent.                     *)
C5_MediaPair ==
    /\ \A p \in Rows : (p.media_type = NoValue) <=> (p.media_filename = <<>>)
    /\ \A w \in Workers :
         (/\ pc[w] = "done"
          /\ req[w].op = "create"
          /\ resp[w].kind = "redirect"
          /\ ~req[w].has_file)
         => /\ posts[Len(posts)].title = req[w].title
            /\ posts[Len(posts)].content_markdown = req[w].content
            /\ posts[Len(posts)].media_type = NoValue
            /\ posts[Len(posts)].media_filename = <<>>

C5_Witness ==
    /\ Len(posts) = 2
    /\ posts[1].media_type # NoValue /\ posts[1].media_filename # <<>>
    /\ pc["w1"] = "done" /\ resp["w1"].kind = "redirect"
    /\ ~req["w1"].has_file /\ NonEmpty(req["w1"].title) /\ NonEmpty(req["w1"].content)
    /\ posts[2].media_type = NoValue

(* C8: a stored Post with media has the media_type of its filename's       *)
(* extension under {png,jpg,jpeg,gif,webp} -> image and                    *)
(* {mp4,mov,avi,webm} -> video (letter case ignored, as the code lowers    *)
(* it); an attachment with another extension or none is rejected; no file  *)
(* and no Post carries an extension outside the two sets.                  *)
ClassOfExtension(ext) ==
    IF ext \in {"png", "jpg", "jpeg", "gif", "webp"} THEN "image"
    ELSE IF ext \in {"mp4", "mov", "avi", "webm"} THEN "video"
    ELSE "rejected"

ClassOfName(name) ==
    IF Len(name) >= 2 /\ name[Len(name) - 1] = "."
    THEN ClassOfExtension(Lower(name[Len(name)]))
    ELSE "rejected"

C8_Classification ==
    /\ \A p \in Rows :
         p.media_filename # <<>> =>
            /\ ClassOfName(p.media_filename) # "rejected"
            /\ p.media_type = ClassOfName(p.media_filename)
    /\ \A f \in files : ClassOfName(f.name) # "rejected"
    /\ \A w \in Workers :
         (req[w].op = "create" /\ req[w].has_file /\ ClassOfName(req[w].filename) = "rejected")
         => unique_name[w] = <<>> /\ media_filename[w] = <<>> /\ media_type[w] = NoValue

C8_Witness ==
    /\ \E p \in Rows : p.media_type = "image" /\ ClassOfName(p.media_filename) = "image"
    /\ \E p \in Rows : p.media_type = "video" /\ p.media_filename[Len(p.media_filename)] = "MP4"

(* C2: a create request that violates the Post invariant (empty or missing *)
(* title, or neither non-empty content nor an accepted media file) leaves  *)
(* the Post rows and the files of the media directory as they were.        *)
AcceptedMedia(r) == r.has_file /\ ClassOfName(r.filename) # "rejected"

ViolatesPostInvariant(r) ==
    ~NonEmpty(r.title) \/ (~NonEmpty(r.content) /\ ~AcceptedMedia(r))

Handles(w) == pc'[w] # pc[w] /\ pc'[w] # "idle" /\ req'[w].op = "create"

C2_RejectedBeforeAnyWrite ==
    [][\A w \in Workers :
          (Handles(w) /\ ViolatesPostInvariant(req'[w]))
          => posts' = posts /\ files' = files]_vars

(* C3: an attachment that is not accepted as media (extension outside the  *)
(* allowed set, or no extension) writes no file and does not end the       *)
(* request: it goes on to validation with media absent; with a non-empty   *)
(* title and content the Post is stored with media absent (the only other  *)
(* outcome being a failed commit, which stores nothing); without content   *)
(* the answer is the validation error and no Post row is created.          *)
RejectedAttachment(r) == r.has_file /\ ClassOfName(r.filename) = "rejected"

StoredWithoutMedia(w) ==
    /\ resp'[w] = Response("redirect", NoValue, <<>>, NoValue)
    /\ Len(posts') = Len(posts) + 1
    /\ SubSeq(posts', 1, Len(posts)) = posts
    /\ posts'[Len(posts')].title = req'[w].title
    /\ posts'[Len(posts')].content_markdown = req'[w].content
    /\ posts'[Len(posts')].media_type = NoValue
    /\ posts'[Len(posts')].media_filename = <<>>

CommitFailed(w) ==
    /\ pc[w] = "validate"
    /\ resp'[w] = Response("form", "failure", <<>>, NoValue)
    /\ posts' = posts

C3_RejectedAttachment ==
    [][\A w \in Workers :
          (Handles(w) /\ RejectedAttachment(req'[w]))
          => /\ files' = files
             /\ media_filename'[w] = <<>> /\ media_type'[w] = NoValue
             /\ pc[w] = "idle" => (pc'[w] = "validate" /\ posts' = posts)
             /\ (pc'[w] = "done" /\ NonEmpty(req'[w].title) /\ NonEmpty(req'[w].content))
                => (StoredWithoutMedia(w) \/ CommitFailed(w))
             /\ (pc'[w] = "done" /\ ~(NonEmpty(req'[w].title) /\ NonEmpty(req'[w].content)))
                => /\ resp'[w] = Response("form", "validation", <<>>, NoValue)
                   /\ posts' = posts]_vars

C3_Witness ==
    /\ pc["w1"] = "done"
    /\ req["w1"].op = "create"
    /\ req["w1"].filename = <<"a", ".", "txt">>
    /\ resp["w1"].kind = "redirect"
    /\ posts[Len(posts)].media_filename = <<>>
    /\ posts[Len(posts)].content_markdown = "c"
    /\ files = {}

(* C4: a failure raised during a create request (in the upload step or in  *)
(* the commit) ends the request with the creation form and a failure       *)
(* message, never a redirect or another answer, and persists no Post row.  *)
ValidRequest(w) ==
    NonEmpty(req[w].title) /\ (NonEmpty(req[w].content) \/ media_filename[w] # <<>>)

C4_FailureCaught ==
    [][\A w \in Workers :
          (Handles(w) /\ pc'[w] = "done")
          => /\ resp'[w].kind \in {"redirect", "form"}
             /\ resp'[w].kind = "redirect" => Len(posts') = Len(posts) + 1
             /\ resp'[w].kind = "form" => posts' = posts
             /\ pc[w] = "idle" => resp'[w] = Response("form", "failure", <<>>, NoValue)
             /\ (pc[w] = "validate" /\ ValidRequest(w) /\ posts' = posts)
                => resp'[w] = Response("form", "failure", <<>>, NoValue)]_vars

C4_Witness ==
    /\ pc["w1"] = "done"
    /\ req["w1"].op = "create"
    /\ resp["w1"] = Response("form", "failure", <<>>, NoValue)
    /\ media_filename["w1"] # <<>>
    /\ NonEmpty(req["w1"].title)
    /\ posts = <<>>

(* C6: Posts are append-only and immutable: no step of any worker removes  *)
(* a stored Post or changes one of its fields, and the Post table changes  *)
(* only by a successful create adding exactly one row at the end.          *)
C6_AppendOnly ==
    [][/\ Len(posts') >= Len(posts)
       /\ \A i \in 1..Len(posts) : posts'[i] = posts[i]
       /\ posts' # posts
          => /\ Len(posts') = Len(posts) + 1
             /\ \E w \in Workers :
                  /\ pc[w] = "validate" /\ pc'[w] = "done"
                  /\ req[w].op = "create"
                  /\ resp'[w].kind = "redirect"]_vars

C6_Witness ==
    /\ Len(posts) = 2
    /\ posts[1].id = 1 /\ posts[2].id = 2
    /\ pc["w1"] = "done" /\ resp["w1"].kind = "redirect"
    /\ pc["w2"] = "done" /\ resp["w2"].kind = "redirect"

(* C7: the list handler returns every stored Post exactly once, a Post     *)
(* with a later date_posted before every Post with an earlier one.         *)
C7_Listing ==
    \A w \in Workers :
        (pc[w] = "done" /\ req[w].op = "list")
        => LET listed == resp[w].posts
           IN  /\ resp[w].kind = "list"
               /\ Len(listed) = Len(posts)
               /\ \A p \in Rows : Cardinality({k \in 1..Len(listed) : listed[k] = p}) = 1
               /\ \A i, j \in 1..Len(listed) :
                    listed[i].date_posted > listed[j].date_posted => i < j

C7_Witness ==
    /\ Len(posts) = 3
    /\ posts[1].date_posted < posts[2].date_posted
    /\ posts[2].date_posted < posts[3].date_posted
    /\ pc["w1"] = "done" /\ req["w1"].op = "list"
    /\ resp["w1"].posts = <<posts[3], posts[2], posts[1]>>

Sanitized(w) == secure_filename(req[w].filename)

C10_Names ==
    \A v, w \in Workers :
        (unique_name[v] # <<>> /\ unique_name[w] # <<>>)
        => /\ unique_name[w] = <<token[w], "_">> \o Sanitized(w)
           /\ unique_name[v] = unique_name[w]
              <=> (token[v] = token[w] /\ Sanitized(v) = Sanitized(w))

C10_Undetected ==
    \A w \in Workers :
        (pc[w] = "validate" /\ media_filename[w] # <<>>)
        => /\ media_filename[w] = unique_name[w]
           /\ media_filename[w] \in FileNames
           /\ NonEmpty(req[w].title) <=> ENABLED CreateCommit(w)

C10_Replaces ==
    \A w \in Workers :
        (pc[w] = "idle" /\ pc'[w] = "validate" /\ media_filename'[w] # <<>>)
        => files' = {f \in files : f.name # media_filename'[w]}
                    \cup {[name |-> media_filename'[w], data |-> req'[w].data]}

====
